---- MODULE Spec2Model ----
(***************************************************************************)
(* Model of src/main.py: a FastAPI service that forwards GET /point to a   *)
(* Redis counter and the /es/... routes to an Elasticsearch client.        *)
(*                                                                         *)
(* The two stores are the environment.  Every backend call either succeeds *)
(* or raises one exception of the client library; which one is an input of *)
(* the step.  A call that timed out may or may not have been applied by    *)
(* the store.  create_index makes up to three backend calls, so requests   *)
(* to it are modelled call by call and may interleave; every other handler *)
(* makes at most one backend call and is one atomic step.  Requests carry  *)
(* no identity, so the create_index requests in flight form a bag.         *)
(*                                                                         *)
(* `last` is the record of the request that completed most recently: its   *)
(* HTTP response and what the handler did on the way to it.                *)
(***************************************************************************)
EXTENDS Integers, FiniteSets, Bags, TLC

\* ---------------------------------------------------------------- bounds
MaxReqs == 2
MaxNames == 1
MaxPoints == 6

Names == 1..MaxNames

VARIABLES points, prevPoints, gap, indices, inflight, last

vars == <<points, prevPoints, gap, indices, inflight, last>>

\* ---------------------------------------------------------------- values
NoVal == -1

\* Payload values.  "none" is an absent key / None, "empty" is {}.
SettingsVals == {"none", "empty", "s1"}
MappingsVals == {"none", "empty", "m1"}

\* The bodies of the two PUT routes that change an index.
UpdateSettings == {"s1"}
UpdateProps == {"m1"}

\* Python truthiness of an optional dict: None and {} are falsy.
Truthy(v) == v \notin {"none", "empty"}

\* What a redis-py call ends with: "none" or the exception raised.
RedisFaults == {"none", "redis.ConnectionError", "redis.TimeoutError", "redis.ResponseError"}

\* What a failing transport or store makes an elasticsearch-py call raise:
\* the two exception classes the handlers name.  ConnectionTimeout is a
\* request that got no answer in time, ApiError an HTTP error response.
EsFaults == {"none", "ConnectionTimeout", "ApiError"}

\* isinstance(exc, cls) for the classes the except clauses name.
\* NotFoundError (404) and BadRequestError (400) are ApiError subclasses.
Catches(cls, exc) ==
    CASE cls = "RedisError" ->
           exc \in {"redis.ConnectionError", "redis.TimeoutError", "redis.ResponseError"}
      [] cls = "ConnectionTimeout" -> exc = "ConnectionTimeout"
      [] cls = "ApiError" -> exc \in {"ApiError", "NotFoundError", "BadRequestError"}
      [] OTHER -> FALSE

\* ---------------------------------------------------------------- responses
Http(code, status, detail) == [code |-> code, status |-> status, detail |-> detail]

\* An exception that leaves the handler: FastAPI answers 500.
Unhandled == Http(500, "none", "Internal Server Error")

\* A stored index.
NoIndex == [present |-> FALSE, settings |-> "none", mappings |-> "none"]
Index(s, m) == [present |-> TRUE, settings |-> s, mappings |-> m]

\* The record of a completed request, before the handler fills it in.
\*   calls, creates, followups: backend calls made (all, indices.create,
\*     the existence check of the timeout handler)
\*   unlogged: failed backend calls no logger.exception followed
\*   exc: what the last call of the try block ended with
\*   followRes: what the existence check of the timeout handler ended with
\*   faulty: some call met a failing transport or store
\*   sawExisting: es.indices.exists answered the try block that the index exists
\*   wrote: the request changed the store
Blank ==
    [h |-> "none", name |-> 0, code |-> 0, status |-> "none", detail |-> "",
     points |-> NoVal, prevPoints |-> NoVal, gap |-> FALSE,
     calls |-> 0, creates |-> 0, followups |-> 0, unlogged |-> 0,
     exc |-> "none", followRes |-> "none",
     sawExisting |-> FALSE, faulty |-> FALSE, wrote |-> FALSE, hasProps |-> TRUE]

Done(h, name, resp) ==
    [Blank EXCEPT !.h = h, !.name = name, !.code = resp.code,
                  !.status = resp.status, !.detail = resp.detail]

Init ==
    /\ points = 0
    /\ prevPoints = NoVal
    /\ gap = FALSE
    /\ indices = [n \in Names |-> NoIndex]
    /\ inflight = EmptyBag
    /\ last = Blank

\* ---------------------------------------------------------------- GET /health, /print
health ==
    /\ last' = Done("health", 0, Http(200, "ok", ""))
    /\ UNCHANGED <<points, prevPoints, gap, indices, inflight>>

print_log ==
    /\ last' = Done("print_log", 0, Http(200, "ok", ""))
    /\ UNCHANGED <<points, prevPoints, gap, indices, inflight>>

\* ---------------------------------------------------------------- GET /point
\* redis.incr("points"): the value stored after the call.  A command that
\* timed out may have been applied by the server.
RedisIncrByTwo(v, fault, landed) ==
    IF fault = "none" \/ (fault = "redis.TimeoutError" /\ landed) THEN v + 2 ELSE v

RedisIncr(v, fault, landed) ==
    IF fault = "none" \/ (fault = "redis.TimeoutError" /\ landed) THEN v + 1 ELSE v

\* point() with `except ConnectionError` in place of `except RedisError`.
PointResultConnectionOnly(fault, value) ==
    IF fault = "none"
    THEN [resp |-> Http(200, "ok", ""), points |-> value, logged |-> FALSE]
    ELSE IF fault = "redis.ConnectionError"
    THEN [resp |-> Http(200, "error", "redis unavailable"), points |-> NoVal, logged |-> TRUE]
    ELSE [resp |-> Unhandled, points |-> NoVal, logged |-> FALSE]

\* The except clause and the two returns of point().
PointResult(fault, value) ==
    IF fault = "none"
    THEN [resp |-> Http(200, "ok", ""), points |-> value, logged |-> FALSE]
    ELSE IF Catches("RedisError", fault)
    THEN [resp |-> Http(200, "error", "redis unavailable"), points |-> NoVal, logged |-> TRUE]
    ELSE [resp |-> Unhandled, points |-> NoVal, logged |-> FALSE]

\* prevPoints is the points value of the latest successful response, gap
\* says that a request to /point failed since.
point ==
    \E fault \in RedisFaults, landed \in BOOLEAN :
        /\ points < MaxPoints
        /\ landed => fault = "redis.TimeoutError"
        /\ LET value == RedisIncr(points, fault, landed)
               res == PointResult(fault, value)
               failed == fault # "none"
           IN /\ points' = value
              /\ last' = [Done("point", 0, res.resp) EXCEPT
                              !.points = res.points,
                              !.prevPoints = prevPoints,
                              !.gap = gap,
                              !.calls = 1,
                              !.exc = fault,
                              !.faulty = failed,
                              !.unlogged = IF failed /\ ~res.logged THEN 1 ELSE 0]
              /\ prevPoints' = IF res.resp.status = "ok" THEN res.points ELSE prevPoints
              /\ gap' = (res.resp.status # "ok")
        /\ UNCHANGED <<indices, inflight>>

\* ---------------------------------------------------------------- document store
\* What a call on index n ends with: the failure of the transport or the
\* store, else 404 when the call needs an index that is absent.
EsOutcome(fault, needsIndex, n) ==
    IF fault # "none" THEN fault
    ELSE IF needsIndex /\ ~indices[n].present THEN "NotFoundError"
    ELSE "none"

\* Whether the store applied a write: it answered, or the answer was lost
\* to a timeout after the store had done the work.
Applied(exc, landed) == exc = "none" \/ (exc = "ConnectionTimeout" /\ landed)

\* A lost answer is the only failure that can hide an applied write.
LandedOk(fault, landed) == landed => fault = "ConnectionTimeout"

\* An exception that shows a failing transport or store, not a request the
\* healthy store refuses.
IsFault(exc) == exc \in EsFaults \ {"none"}

\* One except clause for every exception, answered 502.
EsExceptAllUnavailable(exc) ==
    [resp |-> Http(502, "none", "elasticsearch unavailable"), logged |-> TRUE]

\* The except clauses shared by list_indices, create_document,
\* search_document, update_index_settings and update_index_mapping.
EsExcept(exc) ==
    IF Catches("ConnectionTimeout", exc)
    THEN [resp |-> Http(504, "none", "elasticsearch timeout"), logged |-> TRUE]
    ELSE IF Catches("ApiError", exc)
    THEN [resp |-> Http(502, "none", "elasticsearch unavailable"), logged |-> TRUE]
    ELSE [resp |-> Unhandled, logged |-> FALSE]

\* A handler that calls the store again after a timeout.
OneCallRetried(h, n, exc, wrote) ==
    LET res == IF exc = "none"
               THEN [resp |-> Http(200, "ok", ""), logged |-> FALSE]
               ELSE EsExcept(exc)
    IN [Done(h, n, res.resp) EXCEPT
            !.calls = IF exc = "ConnectionTimeout" THEN 2 ELSE 1,
            !.exc = exc,
            !.faulty = IsFault(exc),
            !.wrote = wrote,
            !.unlogged = IF exc # "none" /\ ~res.logged THEN 1 ELSE 0]

\* The record of a handler whose try block makes one document store call,
\* which ended with exc.
OneCall(h, n, exc, wrote) ==
    LET res == IF exc = "none"
               THEN [resp |-> Http(200, "ok", ""), logged |-> FALSE]
               ELSE EsExcept(exc)
    IN [Done(h, n, res.resp) EXCEPT
            !.calls = 1,
            !.exc = exc,
            !.faulty = IsFault(exc),
            !.wrote = wrote,
            !.unlogged = IF exc # "none" /\ ~res.logged THEN 1 ELSE 0]

\* GET /es/index
list_indices ==
    \E fault \in EsFaults :
        /\ last' = OneCall("list_indices", 0, EsOutcome(fault, FALSE, 0), FALSE)
        /\ UNCHANGED <<points, prevPoints, gap, indices, inflight>>

\* POST /es/index/{name}/doc.  With action.auto_create_index on, indexing
\* into an absent index creates it; with it off the store answers 404.
create_document ==
    \E n \in Names, fault \in EsFaults, landed \in BOOLEAN, auto \in BOOLEAN :
        /\ LandedOk(fault, landed)
        /\ LET exc == EsOutcome(fault, ~auto, n)
               new == IF Applied(exc, landed) /\ auto /\ ~indices[n].present
                      THEN [indices EXCEPT ![n] = Index("none", "none")]
                      ELSE indices
           IN /\ indices' = new
              /\ last' = OneCall("create_document", n, exc, Applied(exc, landed))
        /\ UNCHANGED <<points, prevPoints, gap, inflight>>

\* GET /es/index/{name}/search
search_document ==
    \E n \in Names, fault \in EsFaults :
        /\ last' = OneCall("search_document", n, EsOutcome(fault, TRUE, n), FALSE)
        /\ UNCHANGED <<points, prevPoints, gap, indices, inflight>>

\* PUT /es/index/{name}/settings
update_index_settings ==
    \E n \in Names, settings \in UpdateSettings, fault \in EsFaults, landed \in BOOLEAN :
        /\ LandedOk(fault, landed)
        /\ LET exc == EsOutcome(fault, TRUE, n)
               new == IF Applied(exc, landed) /\ indices[n].present /\ Truthy(settings)
                      THEN [indices EXCEPT ![n].settings = settings]
                      ELSE indices
           IN /\ indices' = new
              /\ last' = OneCall("update_index_settings", n, exc, new # indices)
        /\ UNCHANGED <<points, prevPoints, gap, inflight>>

\* update_index_mapping without the check.
MappingNeverRejected(hasProps) == FALSE

\* The check update_index_mapping makes before its try block.
MappingRejected(hasProps) == ~hasProps

\* PUT /es/index/{name}/mapping
update_index_mapping ==
    \E n \in Names, hasProps \in BOOLEAN :
        /\ IF MappingRejected(hasProps)
           THEN /\ last' = [Done("update_index_mapping", n,
                                 Http(400, "none", "mappings must include 'properties' field"))
                              EXCEPT !.hasProps = hasProps]
                /\ indices' = indices
           ELSE \E props \in UpdateProps, fault \in EsFaults, landed \in BOOLEAN :
                    /\ LandedOk(fault, landed)
                    /\ LET exc == EsOutcome(fault, TRUE, n)
                           new == IF Applied(exc, landed) /\ indices[n].present /\ Truthy(props)
                                  THEN [indices EXCEPT ![n].mappings = props]
                                  ELSE indices
                       IN /\ indices' = new
                          /\ last' = [OneCall("update_index_mapping", n, exc, new # indices)
                                        EXCEPT !.hasProps = hasProps]
        /\ UNCHANGED <<points, prevPoints, gap, inflight>>

\* ---------------------------------------------------------------- POST /es/index/{name}
\* A create_index request between two of its backend calls.
\*   pc: the call it makes next, "create" or "followup"
\*   stage: the call of the try block made last, "exists" or "create"
\*   sawExisting, wrote: as in the record of a completed request
Flight(pc, n, stage, sawExisting, wrote) ==
    [pc |-> pc, name |-> n, stage |-> stage, sawExisting |-> sawExisting, wrote |-> wrote]

\* Backend calls of the try block made so far.
TryCalls(k) == IF k.stage = "exists" THEN 1 ELSE 2

\* create_index without the early return.
AlreadyExistsIgnored(exists) == FALSE

\* `if exists:` on the answer of es.indices.exists.
AlreadyExists(exists) == exists

\* The keyword arguments of es.indices.create: settings and mappings are
\* passed on only when truthy.
CreateParams(settings, mappings) ==
    [settings |-> IF Truthy(settings) THEN settings ELSE "none",
     mappings |-> IF Truthy(mappings) THEN mappings ELSE "none"]

\* What es.indices.create ends with: a healthy store refuses to create an
\* index that exists (400 resource_already_exists_exception).
EsCreateOutcome(fault, n) ==
    IF fault # "none" THEN fault
    ELSE IF indices[n].present THEN "BadRequestError"
    ELSE "none"

\* The except clauses of create_index's try block: a timeout is logged and
\* goes on to the existence check, an ApiError is logged and answered 502.
CreateIndexExcept(exc) ==
    IF Catches("ConnectionTimeout", exc)
    THEN [next |-> "followup",
          resp |-> Http(504, "none", "elasticsearch timeout"), logged |-> TRUE]
    ELSE IF Catches("ApiError", exc)
    THEN [next |-> "respond",
          resp |-> Http(502, "none", "elasticsearch unavailable"), logged |-> TRUE]
    ELSE [next |-> "respond", resp |-> Unhandled, logged |-> FALSE]

\* A timeout handler that reports success whenever the check answers.
FollowupResultUnchecked(fault, exists) ==
    IF fault = "none"
    THEN Http(200, "ok", "index created but request timed out")
    ELSE IF Catches("ConnectionTimeout", fault)
    THEN Http(504, "none", "elasticsearch timeout")
    ELSE Unhandled

\* The existence check inside the timeout handler and what follows it.
\* Only ConnectionTimeout is caught around it, and passed over; any other
\* exception is raised inside the handler and leaves create_index.
FollowupResult(fault, exists) ==
    IF fault = "none"
    THEN IF exists
         THEN Http(200, "ok", "index created but request timed out")
         ELSE Http(504, "none", "elasticsearch timeout")
    ELSE IF Catches("ConnectionTimeout", fault)
    THEN Http(504, "none", "elasticsearch timeout")
    ELSE Unhandled

\* The record of a create_index request that answers from its try block or
\* from one of the except clauses of it.
CreateDone(n, resp, calls, creates, exc, logged, sawExisting, wrote) ==
    [Done("create_index", n, resp) EXCEPT
        !.calls = calls,
        !.creates = creates,
        !.exc = exc,
        !.faulty = IsFault(exc),
        !.sawExisting = sawExisting,
        !.wrote = wrote,
        !.unlogged = IF exc # "none" /\ ~logged THEN 1 ELSE 0]

\* The request arrives and calls es.indices.exists.
create_index_exists ==
    \E n \in Names, fault \in EsFaults :
        /\ BagCardinality(inflight) < MaxReqs
        /\ LET exc == EsOutcome(fault, FALSE, n)
               exists == indices[n].present
               sawExisting == exc = "none" /\ exists
               e == CreateIndexExcept(exc)
           IN IF exc = "none"
              THEN IF AlreadyExists(exists)
                   THEN /\ last' = CreateDone(n, Http(200, "ok", "index already exists"),
                                              1, 0, exc, FALSE, sawExisting, FALSE)
                        /\ inflight' = inflight
                   ELSE /\ inflight' = inflight (+) SetToBag({Flight("create", n, "exists", sawExisting, FALSE)})
                        /\ last' = last
              ELSE IF e.next = "followup"
                   THEN /\ inflight' = inflight (+) SetToBag({Flight("followup", n, "exists", sawExisting, FALSE)})
                        /\ last' = last
                   ELSE /\ last' = CreateDone(n, e.resp, 1, 0, exc, e.logged, sawExisting, FALSE)
                        /\ inflight' = inflight
        /\ UNCHANGED <<points, prevPoints, gap, indices>>

\* The request reads its body and calls es.indices.create.
create_index_create ==
    \E k \in BagToSet(inflight), settings \in SettingsVals, mappings \in MappingsVals,
       fault \in EsFaults, landed \in BOOLEAN :
        /\ k.pc = "create"
        /\ LandedOk(fault, landed)
        /\ LET n == k.name
               exc == EsCreateOutcome(fault, n)
               params == CreateParams(settings, mappings)
               applied == Applied(exc, landed) /\ ~indices[n].present
               rest == inflight (-) SetToBag({k})
               e == CreateIndexExcept(exc)
           IN /\ indices' = IF applied
                            THEN [indices EXCEPT ![n] = Index(params.settings, params.mappings)]
                            ELSE indices
              /\ IF exc = "none"
                 THEN /\ last' = CreateDone(n, Http(200, "ok", ""), 2, 1, exc, FALSE,
                                            k.sawExisting, applied)
                      /\ inflight' = rest
                 ELSE IF e.next = "followup"
                      THEN /\ inflight' = rest (+) SetToBag({Flight("followup", n, "create", k.sawExisting, applied)})
                           /\ last' = last
                      ELSE /\ last' = CreateDone(n, e.resp, 2, 1, exc, e.logged,
                                                 k.sawExisting, applied)
                           /\ inflight' = rest
        /\ UNCHANGED <<points, prevPoints, gap>>

\* The timeout handler calls es.indices.exists and answers.
create_index_followup ==
    \E k \in BagToSet(inflight), fault \in EsFaults :
        /\ k.pc = "followup"
        /\ LET n == k.name
               exists == indices[n].present
               resp == FollowupResult(fault, exists)
           IN last' = [Done("create_index", n, resp) EXCEPT
                           !.calls = TryCalls(k) + 1,
                           !.creates = IF k.stage = "create" THEN 1 ELSE 0,
                           !.followups = 1,
                           !.exc = "ConnectionTimeout",
                           !.followRes = IF fault # "none" THEN fault
                                         ELSE IF exists THEN "true" ELSE "false",
                           !.faulty = TRUE,
                           !.sawExisting = k.sawExisting,
                           !.wrote = k.wrote,
                           !.unlogged = IF fault # "none" THEN 1 ELSE 0]
        /\ inflight' = inflight (-) SetToBag({k})
        /\ UNCHANGED <<points, prevPoints, gap, indices>>

create_index ==
    \/ create_index_exists
    \/ create_index_create
    \/ create_index_followup

NextPoint ==
    \/ health
    \/ print_log
    \/ point

Next ==
    \/ create_index
    \/ list_indices
    \/ create_document
    \/ search_document
    \/ update_index_settings
    \/ update_index_mapping

\* The handlers whose try block makes one document store call.
SingleCall ==
    {"list_indices", "create_document", "search_document",
     "update_index_settings", "update_index_mapping"}

EsHandlers == SingleCall \cup {"create_index"}

\* The routes that do not touch the document store.
SpecPoint == Init /\ [][NextPoint]_vars

\* The document store routes.
Spec == Init /\ [][Next]_vars

\* Requests to POST /es/index/{name} alone, in any interleaving.
SpecCreate == Init /\ [][create_index]_vars

\* ---------------------------------------------------------------- properties
\* C1: while the counter store answers, each successful GET /point returns
\* the points value of the previous successful response plus one.
C1_PointsConsecutive ==
    (last.h = "point" /\ last.status = "ok" /\ last.prevPoints # NoVal /\ ~last.gap)
        => last.points = last.prevPoints + 1

C1_Witness ==
    /\ last.h = "point" /\ last.status = "ok" /\ ~last.gap
    /\ last.prevPoints = 2 /\ last.points = 3

\* C2: GET /point always answers HTTP 200; when redis.incr fails the body is
\* {status: error, detail: "redis unavailable"} without a points value.
C2_PointSoftFail ==
    last.h = "point" =>
        /\ last.code = 200
        /\ last.exc # "none" =>
              /\ last.status = "error"
              /\ last.detail = "redis unavailable"
              /\ last.points = NoVal

C2_Witness ==
    /\ last.h = "point" /\ last.exc = "redis.TimeoutError"
    /\ last.code = 200 /\ last.status = "error"

\* C3: a successful POST /es/index/{name} leaves the index in the store, and
\* a call that finds the index there answers ok "index already exists",
\* makes no create call and does not change the store.
C3_CreateIdempotent ==
    last.h = "create_index" =>
        /\ last.status = "ok" => indices[last.name].present
        /\ last.sawExisting =>
              /\ last.code = 200 /\ last.status = "ok"
              /\ last.detail = "index already exists"
              /\ last.calls = 1 /\ last.creates = 0 /\ ~last.wrote

C3_Witness ==
    /\ last.h = "create_index" /\ last.sawExisting
    /\ last.detail = "index already exists"
    /\ indices[last.name] = Index("s1", "m1")

\* C4: every POST /es/index/{name} request that meets a healthy store, also
\* one that runs concurrently with others for the same name, answers ok.
C4_ConcurrentCreateOk ==
    (last.h = "create_index" /\ ~last.faulty)
        => (last.code = 200 /\ last.status = "ok")

\* C5: after a timeout in create_index's try block the handler makes one
\* existence check and no further create call; it answers ok "index created
\* but request timed out" exactly when the check finds the index, and 504
\* when the check finds none or times out.
C5_TimeoutFollowup ==
    last.h = "create_index" =>
        /\ last.creates <= 1
        /\ last.exc # "ConnectionTimeout" => last.followups = 0
        /\ last.exc = "ConnectionTimeout" =>
              /\ last.followups = 1
              /\ last.calls = 1 + last.creates + last.followups
              /\ (last.followRes = "true") <=>
                    (/\ last.code = 200 /\ last.status = "ok"
                     /\ last.detail = "index created but request timed out")
              /\ last.followRes \in {"false", "ConnectionTimeout"} => last.code = 504

C5_Witness ==
    /\ last.h = "create_index" /\ last.exc = "ConnectionTimeout"
    /\ last.creates = 1 /\ last.wrote /\ last.followRes = "true"
    /\ last.status = "ok"

\* C6: when the one backend call of list_indices, create_document,
\* search_document, update_index_settings or update_index_mapping times out,
\* the answer is HTTP 504 "elasticsearch timeout".
C6_TimeoutIs504 ==
    (last.h \in SingleCall /\ last.calls >= 1 /\ last.exc = "ConnectionTimeout") =>
        /\ last.code = 504
        /\ last.detail = "elasticsearch timeout"
        /\ last.status # "ok"

C6_Witness ==
    /\ last.h = "update_index_mapping" /\ last.hasProps
    /\ last.exc = "ConnectionTimeout" /\ last.code = 504

\* C7: every request to a document store route ends with a status-ok
\* envelope or with HTTP 400, 502 or 504, and every backend failure that is
\* not a timeout, the one of the follow-up existence check included, is
\* answered 502.
C7_EsStatuses ==
    last.h \in EsHandlers =>
        /\ (last.code = 200 /\ last.status = "ok") \/ last.code \in {400, 502, 504}
        /\ last.exc \notin {"none", "ConnectionTimeout"} => last.code = 502
        /\ last.followRes \notin {"none", "true", "false", "ConnectionTimeout"}
              => last.code = 502

\* C8: PUT /es/index/{name}/mapping without "properties" answers HTTP 400,
\* makes no backend call and leaves the store as it was.
C8_MappingRejected ==
    (last.h = "update_index_mapping" /\ ~last.hasProps) =>
        /\ last.code = 400
        /\ last.calls = 0
        /\ ~last.wrote

C8_Witness ==
    /\ last.h = "update_index_mapping" /\ ~last.hasProps
    /\ last.code = 400 /\ indices[last.name] = Index("s1", "none")

\* C9 as stated: a request forwarded to a backing store makes exactly one
\* backend call.
C9_ExactlyOneCall == last.calls >= 1 => last.calls = 1

\* C9 amended: every handler but create_index makes exactly one backend call
\* on every path that reaches the store; create_index makes one existence
\* check, at most one create call and at most one follow-up existence check.
C9_CallCounts ==
    /\ last.h \in SingleCall \cup {"point"} =>
          last.calls = (IF last.h = "update_index_mapping" /\ ~last.hasProps THEN 0 ELSE 1)
    /\ last.h = "create_index" =>
          /\ last.creates <= 1
          /\ last.followups <= 1
          /\ last.calls = 1 + last.creates + last.followups

C9_Witness ==
    /\ last.h = "create_index" /\ last.calls = 3
    /\ last.creates = 1 /\ last.followups = 1

\* C10: in every handler each failed backend call is followed by a
\* logger.exception before the response.
C10_FailuresLogged == last.h # "none" => last.unlogged = 0

====
